---- MODULE Spec2Model ----
(***************************************************************************)
(* Rate-limit route service: the in-memory token-bucket store              *)
(* (store/store.go), the RateLimiter wrapper (ratelimiter.go), the         *)
(* RateLimitedRoundTripper request pipeline and the /config and /stats     *)
(* handlers (main.go).                                                     *)
(*                                                                         *)
(* Time is in milliseconds.  Every goroutine (one per HTTP request, one    *)
(* per /config call, one expiry goroutine per store) is a process; a step  *)
(* is one lock-protected region or one unsynchronised access.              *)
(***************************************************************************)
EXTENDS Integers, Sequences, FiniteSets, TLC

(***************************************************************************)
(* Bounds of the model.                                                    *)
(***************************************************************************)
MaxRequests == 3        \* requests started in one behaviour
MaxConfigs == 2         \* /config calls started in one behaviour
MaxAdvances == 2        \* clock advances in one behaviour

Reqs == {1, 2}          \* request goroutines that may run concurrently
Cfgs == {1, 2}          \* /config goroutines that may run concurrently
Keys == {"10.0.0.1", "10.0.0.2"}
TimeSteps == {500, 30000}

(***************************************************************************)
(* Program constants.                                                      *)
(***************************************************************************)
DEFAULT_LIMIT == 10
DEFAULT_PERCENTAGE == 0
expireInSecs == 30000
TickerMillis == 500
MillisPerSec == 1000
DefaultDuration == -1
StatusTooManyRequests == 429

\* The zero time.Time of a new entry: long before any expiry horizon.
ZeroTime == 0 - (2 * expireInSecs)

\* Environment values the process may be started with (RATE_LIMIT,
\* DURATION, PERCENTAGE); an unset variable gives the default.
InitLimits == {1, 2, 30, 1001}
InitDelays == {DEFAULT_LIMIT}
InitPercentages == {DEFAULT_PERCENTAGE}

\* Query values of /config; <<>> is an absent parameter.
DelayVals == {<<>>, <<"a", "b", "c">>, <<"7">>}
LimitVals == {<<>>, <<"a", "b", "c">>, <<"0">>, <<"5", "0">>}
PercentVals == {<<>>, <<"x">>, <<"5", "8">>}

(***************************************************************************)
(* Pure helpers.                                                           *)
(***************************************************************************)
Abs(x) == IF x < 0 THEN 0 - x ELSE x

\* Go's integer division truncates toward zero; b = 0 panics (see Panics).
GoDiv(a, b) ==
    IF (a >= 0) = (b > 0) THEN Abs(a) \div Abs(b) ELSE 0 - (Abs(a) \div Abs(b))

DigitVal ==
    [c \in {"0", "1", "2", "3", "4", "5", "6", "7", "8", "9"} |->
        CASE c = "0" -> 0 [] c = "1" -> 1 [] c = "2" -> 2 [] c = "3" -> 3
          [] c = "4" -> 4 [] c = "5" -> 5 [] c = "6" -> 6 [] c = "7" -> 7
          [] c = "8" -> 8 [] c = "9" -> 9]

RECURSIVE DigitsValue(_, _)
DigitsValue(s, acc) ==
    IF s = <<>> THEN acc ELSE DigitsValue(Tail(s), 10 * acc + DigitVal[Head(s)])

AllDigits(s) == s # <<>> /\ \A i \in 1..Len(s) : s[i] \in DOMAIN DigitVal

\* strconv.Atoi: an optional sign followed by decimal digits.
Atoi(s) ==
    LET signed == s # <<>> /\ Head(s) \in {"+", "-"}
        body == IF signed THEN Tail(s) ELSE s
    IN  IF ~AllDigits(body) THEN [err |-> TRUE, val |-> 0]
        ELSE [err |-> FALSE,
              val |-> IF signed /\ Head(s) = "-"
                      THEN 0 - DigitsValue(body, 0) ELSE DigitsValue(body, 0)]

(***************************************************************************)
(* The token bucket of github.com/juju/ratelimit, quantum 1.               *)
(***************************************************************************)
\* NewBucket panics unless the fill interval and the capacity are positive.
NewBucketPanics(fillInterval, capacity) == fillInterval <= 0 \/ capacity <= 0

NewBucket(fillInterval, capacity, t) ==
    [avail |-> capacity, capacity |-> capacity, fillInterval |-> fillInterval,
     startTime |-> t, latestTick |-> 0, updatedAt |-> ZeroTime]

currentTick(e, t) == (t - e.startTime) \div e.fillInterval

\* Bucket.adjustavailableTokens: credit the ticks since the last look.
adjust(e, t) ==
    LET tick == currentTick(e, t)
        more == e.avail + (tick - e.latestTick)
    IN  IF e.avail >= e.capacity THEN [e EXCEPT !.latestTick = tick]
        ELSE [e EXCEPT !.latestTick = tick,
                       !.avail = IF more > e.capacity THEN e.capacity ELSE more]

\* Bucket.Available: the adjusted count (negative when over-drawn).
BucketAvailable(e, t) == adjust(e, t).avail

\* A Take that draws two tokens.
BucketTakeTwo(e, t) == [adjust(e, t) EXCEPT !.avail = @ - 2]

\* Bucket.Take(1): never blocks and never refuses; the count may go negative.
BucketTake(e, t) == [adjust(e, t) EXCEPT !.avail = @ - 1]

(***************************************************************************)
(* State.                                                                  *)
(***************************************************************************)
VARIABLES
    limit,          \* main.go var limit
    delay,          \* main.go var delay
    percentage,     \* main.go var percentage
    rateLimiter,    \* main.go var rateLimiter: index of its store in stores
    rtLimiter,      \* RateLimitedRoundTripper.rateLimiter, set at construction
    stores,         \* the InMemoryStores still referenced, by identity
    entries,        \* the heap of *entry objects (bucket and updatedAt)
    now,            \* the clock, in milliseconds
    advances,       \* clock advances so far
    req,            \* the request goroutines
    cfg,            \* the /config goroutines
    started,        \* requests started so far
    configs,        \* /config calls started so far
    admitted,       \* history: Increment calls that returned no error, per key
    touched,        \* history: when Increment last stamped an entry, per key
    exhausted       \* history: when a Take last left no token, per key

vars == <<limit, delay, percentage, rateLimiter, rtLimiter, stores, entries,
          now, advances, req, cfg, started, configs, admitted, touched,
          exhausted>>

globals == <<limit, delay, percentage, rateLimiter>>
clock == <<now, advances>>
history == <<admitted, touched, exhausted>>

NoEntry == 0

\* store.NewStore: an empty map, duration -1, and a ticker started now.
NewStore(l, t) ==
    [limit |-> l, duration |-> DefaultDuration,
     storage |-> [k \in Keys |-> NoEntry], created |-> t, swept |-> 0]

\* The fill interval newEntry / newEntryWithDuration gives the bucket.
FillInterval(s) ==
    IF s.duration = DefaultDuration
    THEN (IF s.limit = 0 THEN 0 ELSE GoDiv(MillisPerSec, s.limit))
    ELSE s.duration

\* newEntry panics on 1000 / 0 and when NewBucket refuses its arguments.
newEntryPanics(s) ==
    \/ (s.duration = DefaultDuration /\ s.limit = 0)
    \/ NewBucketPanics(FillInterval(s), s.limit)

newEntry(s, t) == NewBucket(FillInterval(s), s.limit, t)

\* entry.Expired: time.Now().After(updatedAt + 30 s).
Expired(e, t) == t > e.updatedAt + expireInSecs

IdleReq ==
    [pc |-> "idle", key |-> "", v |-> NoEntry, exceeded |-> FALSE,
     availSeen |-> 0, checkedAt |-> 0,
     seenLimit |-> 0, seenPct |-> 0, pv |-> NoEntry, total |-> 0,
     status |-> 0, body |-> "", forwarded |-> FALSE, softAsked |-> FALSE,
     slept |-> FALSE, sleptFor |-> 0,
     atStart |-> [limit |-> 0, delay |-> 0, percentage |-> 0,
                  limiter |-> 0, quiet |-> FALSE]]

IdleCfg ==
    [pc |-> "idle", param |-> "", val |-> <<>>, oldDelay |-> 0,
     oldLimit |-> 0, oldPercentage |-> 0]

Init ==
    /\ limit \in InitLimits
    /\ delay \in InitDelays
    /\ percentage \in InitPercentages
    /\ stores = (1 :> NewStore(limit, 0))
    /\ rateLimiter = 1
    /\ rtLimiter = 1
    /\ entries = <<>>
    /\ now = 0
    /\ advances = 0
    /\ req = [r \in Reqs |-> IdleReq]
    /\ cfg = [c \in Cfgs |-> IdleCfg]
    /\ started = 0
    /\ configs = 0
    /\ admitted = [k \in Keys |-> 0]
    /\ touched = [k \in Keys |-> ZeroTime]
    /\ exhausted = [k \in Keys |-> ZeroTime]

\* The round tripper's store: the one its limiter was built around.
rtStore == stores[rtLimiter]

\* A map that keeps one entry for all keys.
getShared(s, key) == s.storage["10.0.0.1"]

\* InMemoryStore.get: the entry the map holds for the key, if any.
get(s, key) == s.storage[key]

\* InMemoryStore.Stats: under the write lock, every key of the map with its
\* bucket's Available() at time t.
Stats(s, t) ==
    [k \in {x \in Keys : s.storage[x] # NoEntry} |->
        BucketAvailable(entries[s.storage[k]], t)]

\* RateLimiter.GetStats as statsHandler calls it: on the global rateLimiter.
GetStats == Stats(stores[rateLimiter], now)

CfgQuiet == \A c \in Cfgs : cfg[c].pc = "idle"

(***************************************************************************)
(* RateLimiter.AbovePercentage: totalAvailable / float64(limit) * 100 >=    *)
(* float64(percentage), in IEEE-754 double arithmetic.  The quotient and    *)
(* the product are each rounded.  When the exact percentage differs from    *)
(* the threshold it differs by at least 1/|limit|, far more than the        *)
(* rounding error, so the comparison is the exact one.  When the exact      *)
(* percentage equals the threshold p, the quotient is the double nearest    *)
(* p/100 and the outcome depends on p alone: (p/100)*100 rounds below p for *)
(* p in FloatBelow and above p for p in FloatAbove (0 <= p <= 100).         *)
(* limit = 0 gives +Inf, NaN or -Inf.                                       *)
(***************************************************************************)
FloatBelow == {29, 57, 58}
FloatAbove == {7, 14, 28, 55, 56}

AbovePercentage(total, lim, pct) ==
    IF lim = 0 THEN total > 0
    ELSE IF 100 * total = pct * lim
         THEN (IF pct >= 0 THEN pct \notin FloatBelow
                           ELSE (0 - pct) \notin FloatAbove)
         ELSE IF lim > 0 THEN 100 * total > pct * lim
                         ELSE 100 * total < pct * lim

(***************************************************************************)
(* A request through RateLimitedRoundTripper.RoundTrip.                     *)
(***************************************************************************)
SetReq(r, new) == req' = [req EXCEPT ![r] = new]

\* Increment line 86: the bucket counts as empty when Available() is 0.
EmptyBucket(avail) == avail = 0

\* RoundTrip with the return after the hard 429 lost.
AfterHardGateFallsThrough(exceeded) == "readLimit"

\* RoundTrip lines 143-150: a true ExceedsLimit answers 429 and returns;
\* otherwise the soft gate is next.
AfterHardGate(exceeded) == IF exceeded THEN "done" ELSE "readLimit"

\* RoundTrip lines 153-163: a false AbovePercentage answers 429 and
\* returns; otherwise the request goes upstream.
AfterSoftGate(above) == IF above THEN "upstream" ELSE "done"

\* RoundTrip lines 163-171: a transport error returns at once; a response
\* is delayed first.
AfterUpstream(ok) == IF ok THEN "delay" ELSE "done"

\* A request arrives and is served by the first free goroutine; remoteIP
\* is its key.
Start(r, k) ==
    /\ req[r].pc = "idle"
    /\ \A q \in Reqs : q < r => req[q].pc # "idle"
    /\ started < MaxRequests
    /\ started' = started + 1
    /\ SetReq(r, [IdleReq EXCEPT
            !.pc = "get", !.key = k,
            !.atStart = [limit |-> limit, delay |-> delay,
                         percentage |-> percentage, limiter |-> rateLimiter,
                         quiet |-> CfgQuiet]])
    /\ UNCHANGED <<globals, rtLimiter, stores, entries, clock, cfg, configs,
                   history>>

\* Increment: s.get(key) under the read lock; a miss makes a fresh entry,
\* which the map does not hold yet (or panics making it).
IncGet(r) ==
    /\ req[r].pc = "get"
    /\ LET found == get(rtStore, req[r].key) IN
        IF found # NoEntry
        THEN /\ SetReq(r, [req[r] EXCEPT !.pc = "avail", !.v = found])
             /\ UNCHANGED entries
        ELSE IF newEntryPanics(rtStore)
        THEN /\ SetReq(r, [req[r] EXCEPT !.pc = "done", !.body = "panic"])
             /\ UNCHANGED entries
        ELSE /\ entries' = Append(entries, newEntry(rtStore, now))
             /\ SetReq(r, [req[r] EXCEPT !.pc = "avail",
                                         !.v = Len(entries) + 1])
    /\ UNCHANGED <<globals, rtLimiter, stores, clock, cfg, started, configs,
                   history>>

\* Increment: v.bucket.Available() under the bucket's own mutex.
IncAvail(r) ==
    /\ req[r].pc = "avail"
    /\ entries' = [entries EXCEPT ![req[r].v] = adjust(@, now)]
    /\ SetReq(r, [req[r] EXCEPT
            !.availSeen = BucketAvailable(entries[req[r].v], now),
            !.checkedAt = now,
            !.exceeded = EmptyBucket(BucketAvailable(entries[req[r].v], now)),
            !.pc = IF EmptyBucket(BucketAvailable(entries[req[r].v], now))
                   THEN "touch" ELSE "take"])
    /\ UNCHANGED <<globals, rtLimiter, stores, clock, cfg, started, configs,
                   history>>

\* Increment: v.bucket.Take(1) under the bucket's own mutex.
IncTake(r) ==
    /\ req[r].pc = "take"
    /\ entries' = [entries EXCEPT ![req[r].v] = BucketTake(@, now)]
    /\ exhausted' = IF BucketTake(entries[req[r].v], now).avail <= 0
                    THEN [exhausted EXCEPT ![req[r].key] = now] ELSE exhausted
    /\ SetReq(r, [req[r] EXCEPT !.pc = "touch"])
    /\ UNCHANGED <<globals, rtLimiter, stores, clock, cfg, started, configs,
                   admitted, touched>>

\* Increment: v.updatedAt = time.Now(), under no lock.
IncTouch(r) ==
    /\ req[r].pc = "touch"
    /\ entries' = [entries EXCEPT ![req[r].v].updatedAt = now]
    /\ touched' = [touched EXCEPT ![req[r].key] = now]
    /\ SetReq(r, [req[r] EXCEPT !.pc = "set"])
    /\ UNCHANGED <<globals, rtLimiter, stores, clock, cfg, started, configs,
                   admitted, exhausted>>

\* Increment: s.set(key, v) under the write lock, then the return (on
\* success the returned count is a second bucket.Available()); ExceedsLimit
\* turns the error into true and RoundTrip then answers 429.
IncSet(r) ==
    /\ req[r].pc = "set"
    /\ stores' = [stores EXCEPT ![rtLimiter].storage[req[r].key] = req[r].v]
    /\ IF req[r].exceeded
       THEN /\ SetReq(r, [req[r] EXCEPT !.pc = AfterHardGate(TRUE),
                    !.status = StatusTooManyRequests,
                    !.body = "Too many requests"])
            /\ UNCHANGED <<entries, admitted>>
       ELSE /\ entries' = [entries EXCEPT ![req[r].v] = adjust(@, now)]
            /\ admitted' = [admitted EXCEPT ![req[r].key] = @ + 1]
            /\ SetReq(r, [req[r] EXCEPT !.pc = AfterHardGate(FALSE)])
    /\ UNCHANGED <<globals, rtLimiter, clock, cfg, started, configs, touched,
                   exhausted>>

\* RoundTrip line 153: the argument limit is read from the global.
SoftReadLimit(r) ==
    /\ req[r].pc = "readLimit"
    /\ SetReq(r, [req[r] EXCEPT !.pc = "readPct", !.seenLimit = limit,
                                !.softAsked = TRUE])
    /\ UNCHANGED <<globals, rtLimiter, stores, entries, clock, cfg, started,
                   configs, history>>

\* RoundTrip line 153: the argument percentage is read from the global.
SoftReadPct(r) ==
    /\ req[r].pc = "readPct"
    /\ SetReq(r, [req[r] EXCEPT !.pc = "softGet", !.seenPct = percentage])
    /\ UNCHANGED <<globals, rtLimiter, stores, entries, clock, cfg, started,
                   configs, history>>

\* AbovePercentage: the store's Available does s.get(key) under the read lock.
SoftGet(r) ==
    /\ req[r].pc = "softGet"
    /\ SetReq(r, [req[r] EXCEPT !.pc = "softAvail",
                                !.pv = get(rtStore, req[r].key)])
    /\ UNCHANGED <<globals, rtLimiter, stores, entries, clock, cfg, started,
                   configs, history>>

\* The soft gate drawing a token of its own.
PeekTakes(e, t) == BucketTake(e, t)

\* What the soft gate's bucket.Available() leaves of the entry: the same
\* tokens, with the refill ticks up to now credited.
Peek(e, t) == adjust(e, t)

\* AbovePercentage: bucket.Available() (0 for an unknown key), the float
\* comparison, and RoundTrip's 429 when it is false.
SoftAvail(r) ==
    /\ req[r].pc = "softAvail"
    /\ LET total == IF req[r].pv = NoEntry THEN 0
                    ELSE BucketAvailable(entries[req[r].pv], now)
       IN  /\ entries' = IF req[r].pv = NoEntry THEN entries
                         ELSE [entries EXCEPT ![req[r].pv] = Peek(@, now)]
           /\ IF AbovePercentage(total, req[r].seenLimit, req[r].seenPct)
              THEN SetReq(r, [req[r] EXCEPT !.pc = AfterSoftGate(TRUE),
                                            !.total = total])
              ELSE SetReq(r, [req[r] EXCEPT !.pc = AfterSoftGate(FALSE),
                        !.total = total, !.status = StatusTooManyRequests,
                        !.body = "Requests below than percentage"])
    /\ UNCHANGED <<globals, rtLimiter, stores, clock, cfg, started, configs,
                   history>>

\* r.transport.RoundTrip(req): the upstream answers or the transport fails;
\* a failure returns at once.
Upstream(r) ==
    /\ req[r].pc = "upstream"
    /\ \E ok \in BOOLEAN :
        IF ok
        THEN SetReq(r, [req[r] EXCEPT !.pc = AfterUpstream(TRUE),
                        !.forwarded = TRUE, !.status = 200,
                        !.body = "upstream"])
        ELSE SetReq(r, [req[r] EXCEPT !.pc = AfterUpstream(FALSE),
                        !.forwarded = TRUE, !.body = "transport error"])
    /\ UNCHANGED <<globals, rtLimiter, stores, entries, clock, cfg, started,
                   configs, history>>

\* delayInMilliseconds(delay): the global is read now, then the sleep.
Delay(r) ==
    /\ req[r].pc = "delay"
    /\ SetReq(r, [req[r] EXCEPT !.pc = "done", !.slept = TRUE,
                                !.sleptFor = delay])
    /\ UNCHANGED <<globals, rtLimiter, stores, entries, clock, cfg, started,
                   configs, history>>

\* The response (or the error, or the panic) has gone to the caller.
Return(r) ==
    /\ req[r].pc = "done"
    /\ SetReq(r, IdleReq)
    /\ UNCHANGED <<globals, rtLimiter, stores, entries, clock, cfg, started,
                   configs, history>>

\* The steps of a request that has arrived.
Proceed(r) ==
    \/ IncGet(r)
    \/ IncAvail(r)
    \/ IncTake(r)
    \/ IncTouch(r)
    \/ IncSet(r)
    \/ SoftReadLimit(r)
    \/ SoftReadPct(r)
    \/ SoftGet(r)
    \/ SoftAvail(r)
    \/ Upstream(r)
    \/ Delay(r)
    \/ Return(r)

RequestStep(r) ==
    \/ \E k \in Keys : Start(r, k)
    \/ Proceed(r)

(***************************************************************************)
(* Time and the expiry goroutine of each store.                            *)
(***************************************************************************)
Advance(d) ==
    /\ advances < MaxAdvances
    /\ now' = now + d
    /\ advances' = advances + 1
    /\ UNCHANGED <<globals, rtLimiter, stores, entries, req, cfg, started,
                   configs, history>>

\* expiryCycle: on a ticker tick, delete every expired entry under the
\* write lock.  A sweep that finds nothing to delete changes nothing and
\* is left out: the tick it would use stays available, as it does when the
\* goroutine is scheduled late.
Sweep(s) ==
    /\ (now - stores[s].created) \div TickerMillis > stores[s].swept
    /\ \E k \in Keys : /\ stores[s].storage[k] # NoEntry
                        /\ Expired(entries[stores[s].storage[k]], now)
    /\ stores' = [stores EXCEPT
            ![s].swept = (now - stores[s].created) \div TickerMillis,
            ![s].storage = [k \in Keys |->
                IF stores[s].storage[k] # NoEntry
                   /\ Expired(entries[stores[s].storage[k]], now)
                THEN NoEntry ELSE stores[s].storage[k]]]
    /\ UNCHANGED <<globals, rtLimiter, entries, clock, req, cfg, started,
                   configs, history>>

(***************************************************************************)
(* A /config call through onTheFlyConfig.  The query of a call is fixed     *)
(* when the call arrives and each of its values is used by one step only;   *)
(* the model draws a value at the step that uses it and keeps, in param     *)
(* and val, the one used last.                                              *)
(***************************************************************************)
SetCfg(c, new) == cfg' = [cfg EXCEPT ![c] = new]

\* The fallback as the log line words it: "setting to default".
FallbackValueDefault(old, current) == DEFAULT_LIMIT

\* The value a parameter gets when its query value does not parse.
FallbackValue(old, current) == old

\* What one parameter's block of onTheFlyConfig assigns: nothing for an
\* absent value, the fallback for one that does not parse, else the number.
Override(val, old, current) ==
    IF val = <<>> THEN current
    ELSE IF Atoi(val).err THEN FallbackValue(old, current)
    ELSE Atoi(val).val

\* A /config call that builds a new limiter whatever its LIMIT value.
RebuildsAlways(val) == TRUE

\* Whether the LIMIT block goes on to build a new limiter.
Rebuilds(val) == val # <<>> /\ ~Atoi(val).err

\* NewRateLimiter(limit): a new store around the global limit as it is now.
RebuiltStore == NewStore(limit, now)

\* The call arrives on the first free goroutine; line 183 reads delay.
CfgStart(c) ==
    /\ cfg[c].pc = "idle"
    /\ \A x \in Cfgs : x < c => cfg[x].pc # "idle"
    /\ configs < MaxConfigs
    /\ configs' = configs + 1
    /\ SetCfg(c, [IdleCfg EXCEPT !.pc = "oldLimit", !.oldDelay = delay])
    /\ UNCHANGED <<globals, rtLimiter, stores, entries, clock, req, started,
                   history>>

\* Line 184: oldLimit = limit.
CfgOldLimit(c) ==
    /\ cfg[c].pc = "oldLimit"
    /\ SetCfg(c, [cfg[c] EXCEPT !.pc = "oldPercentage", !.oldLimit = limit])
    /\ UNCHANGED <<globals, rtLimiter, stores, entries, clock, req, started,
                   configs, history>>

\* Line 185: oldPercentage = percentage.
CfgOldPercentage(c) ==
    /\ cfg[c].pc = "oldPercentage"
    /\ SetCfg(c, [cfg[c] EXCEPT !.pc = "delay", !.oldPercentage = percentage])
    /\ UNCHANGED <<globals, rtLimiter, stores, entries, clock, req, started,
                   configs, history>>

\* Lines 191-202: DELAY.
CfgDelay(c, d) ==
    /\ cfg[c].pc = "delay"
    /\ delay' = Override(d, cfg[c].oldDelay, delay)
    /\ SetCfg(c, [cfg[c] EXCEPT !.pc = "limit", !.param = "DELAY", !.val = d])
    /\ UNCHANGED <<limit, percentage, rateLimiter, rtLimiter, stores, entries,
                   clock, req, started, configs, history>>

\* Lines 203-211: LIMIT, up to the assignment of limit.
CfgLimit(c, l) ==
    /\ cfg[c].pc = "limit"
    /\ limit' = Override(l, cfg[c].oldLimit, limit)
    /\ SetCfg(c, [cfg[c] EXCEPT !.param = "LIMIT", !.val = l,
            !.pc = IF Rebuilds(l) THEN "rebuild" ELSE "percent"])
    /\ UNCHANGED <<delay, percentage, rateLimiter, rtLimiter, stores, entries,
                   clock, req, started, configs, history>>

\* Line 212: rateLimiter = NewRateLimiter(limit); the new store starts its
\* own expiry goroutine.  The round tripper's limiter is not touched.  A
\* store that neither the global nor the round tripper refers to any more
\* keeps its expiry goroutine, which sweeps an empty map for ever; it is
\* dropped from the state.
CfgRebuild(c) ==
    /\ cfg[c].pc = "rebuild"
    /\ rateLimiter' = rateLimiter + 1
    /\ stores' = [id \in {rtLimiter, rateLimiter + 1} |->
                    IF id = rateLimiter + 1 THEN RebuiltStore ELSE stores[id]]
    /\ SetCfg(c, [cfg[c] EXCEPT !.pc = "percent"])
    /\ UNCHANGED <<limit, delay, percentage, rtLimiter, entries, clock, req,
                   started, configs, history>>

\* Lines 215-226: PERCENT.
CfgPercent(c, p) ==
    /\ cfg[c].pc = "percent"
    /\ percentage' = Override(p, cfg[c].oldPercentage, percentage)
    /\ SetCfg(c, [cfg[c] EXCEPT !.pc = "done", !.param = "PERCENT",
                                !.val = p])
    /\ UNCHANGED <<limit, delay, rateLimiter, rtLimiter, stores, entries,
                   clock, req, started, configs, history>>

\* The handler returns (200, no body).
CfgReturn(c) ==
    /\ cfg[c].pc = "done"
    /\ SetCfg(c, IdleCfg)
    /\ UNCHANGED <<globals, rtLimiter, stores, entries, clock, req, started,
                   configs, history>>

ConfigStep(c) ==
    \/ CfgStart(c)
    \/ CfgOldLimit(c)
    \/ CfgOldPercentage(c)
    \/ \E d \in DelayVals : CfgDelay(c, d)
    \/ \E l \in LimitVals : CfgLimit(c, l)
    \/ CfgRebuild(c)
    \/ \E p \in PercentVals : CfgPercent(c, p)
    \/ CfgReturn(c)

(***************************************************************************)
(* Specifications.  Next is the whole system; the others are the same       *)
(* actions under a schedule.                                                *)
(***************************************************************************)
ReqsIdle == \A r \in Reqs : req[r].pc = "idle"

\* Every goroutine runs concurrently with every other.
Next ==
    \/ \E r \in Reqs : RequestStep(r)
    \/ \E c \in Cfgs : ConfigStep(c)
    \/ \E d \in TimeSteps : Advance(d)
    \/ \E s \in DOMAIN stores : Sweep(s)

Spec == Init /\ [][Next]_vars

\* Handlers run one at a time, with no time passing.
NextSeq ==
    \/ \E r \in Reqs :
            /\ CfgQuiet
            /\ \A q \in Reqs \ {r} : req[q].pc = "idle"
            /\ RequestStep(r)
    \/ \E c \in Cfgs :
            /\ ReqsIdle
            /\ \A x \in Cfgs \ {c} : cfg[x].pc = "idle"
            /\ ConfigStep(c)

SpecSeq == Init /\ [][NextSeq]_vars

\* Requests run concurrently with each other; no /config call, no time.
NextRequests == \E r \in Reqs : RequestStep(r)

SpecRequests == Init /\ [][NextRequests]_vars

\* One request at a time, concurrently with one /config call at a time;
\* no time passing.
NextConfigured ==
    \/ \E r \in Reqs :
            /\ \A q \in Reqs \ {r} : req[q].pc = "idle"
            /\ RequestStep(r)
    \/ \E c \in Cfgs :
            /\ \A x \in Cfgs \ {c} : cfg[x].pc = "idle"
            /\ ConfigStep(c)

SpecConfigured == Init /\ [][NextConfigured]_vars

\* One request at a time, with time passing and the expiry goroutine
\* running; no /config call.
NextTimed ==
    \/ \E r \in Reqs :
            /\ \A q \in Reqs \ {r} : req[q].pc = "idle"
            /\ RequestStep(r)
    \/ \E d \in TimeSteps : Advance(d)
    \/ \E s \in DOMAIN stores : Sweep(s)

SpecTimed == Init /\ [][NextTimed]_vars

\* Requests of one client concurrent with each other, one per goroutine,
\* with time passing and the expiry goroutine running; no /config call.
NextRaced ==
    \/ \E r \in Reqs : started < Cardinality(Reqs) /\ Start(r, "10.0.0.1")
    \/ \E r \in Reqs : Proceed(r)
    \/ \E d \in TimeSteps : Advance(d)
    \/ \E s \in DOMAIN stores : Sweep(s)

SpecRaced == Init /\ [][NextRaced]_vars

\* /config calls concurrent with each other; no request, no time.
NextConfigs == \E c \in Cfgs : ConfigStep(c)

SpecConfigs == Init /\ [][NextConfigs]_vars

(***************************************************************************)
(* Properties.                                                              *)
(***************************************************************************)
Done(r) == req[r].pc = "done"
Panicked(r) == Done(r) /\ req[r].body = "panic"
Malformed(val) == val # <<>> /\ Atoi(val).err
WellFormed(val) == val # <<>> /\ ~Atoi(val).err

\* A configuration in the documented ranges.
InRange(l, d, p) == l > 0 /\ d >= 0 /\ p >= 0 /\ p <= 100

\* The steps of a request at which its limit argument has been read, and
\* those at which both arguments have been.
HasReadLimit(r) ==
    req[r].pc \in {"readPct", "softGet", "softAvail", "upstream", "delay"}
    \/ (Done(r) /\ req[r].softAsked)
HasReadBoth(r) ==
    req[r].pc \in {"softGet", "softAvail", "upstream", "delay"}
    \/ (Done(r) /\ req[r].softAsked)

\* C1: on a fresh store of limit N >= 1, with requests one after another
\* and no time passing, Increment for a key fails only once N calls for that
\* key have succeeded, never lets an (N+1)th succeed, and a failing call
\* leaves 0 available; so the first N succeed and the (N+1)th fails.
C1_FirstNSucceedThenFail ==
    \A r \in Reqs : Done(r) =>
        /\ ~Panicked(r)
        /\ req[r].exceeded =>
                /\ admitted[req[r].key] = rtStore.limit
                /\ BucketAvailable(entries[req[r].v], now) = 0
        /\ ~req[r].exceeded => admitted[req[r].key] <= rtStore.limit

\* C2: with no refill, the Increment calls that succeed for a key, however
\* they interleave, never outnumber the tokens the key had: the limit.
C2_AdmittedWithinTokens ==
    \A k \in Keys : admitted[k] <= rtStore.limit

\* C3: every tracked key has between 0 and limit tokens available.
C3_TokenBound ==
    \A id \in DOMAIN stores : \A k \in Keys :
        stores[id].storage[k] # NoEntry =>
            /\ BucketAvailable(entries[stores[id].storage[k]], now) >= 0
            /\ BucketAvailable(entries[stores[id].storage[k]], now) <= limit

\* C4: a request that starts when no /config call is running and the limit
\* is a valid one is admitted against the current limiter, whose store has
\* the capacity of that limit.
C4_RequestsUseRebuiltLimiter ==
    \A r \in Reqs :
        (req[r].pc # "idle" /\ req[r].atStart.quiet /\ req[r].atStart.limit > 0)
        =>
        /\ rtLimiter = req[r].atStart.limiter
        /\ rtStore.limit = req[r].atStart.limit

\* C5: a request whose ExceedsLimit was true is answered 429 "Too many
\* requests"; it never reaches the soft gate, the upstream or the delay.
C5_HardRejection ==
    \A r \in Reqs : req[r].exceeded =>
        /\ req[r].pc \in {"touch", "set", "done"}
        /\ ~req[r].softAsked
        /\ ~req[r].forwarded
        /\ ~req[r].slept
        /\ Done(r) => /\ req[r].status = StatusTooManyRequests
                      /\ req[r].body = "Too many requests"

C5_Witness ==
    \E r \in Reqs : Done(r) /\ req[r].exceeded /\ admitted[req[r].key] > 0

\* C6: a request that passed the hard gate and read a limit > 0 is answered
\* 429 "Requests below than percentage", and not forwarded, exactly when
\* remaining * 100 / limit < percentage for the remaining count it read;
\* otherwise it is forwarded.
C6_SoftGateExact ==
    \A r \in Reqs :
        (Done(r) /\ ~req[r].exceeded /\ ~Panicked(r) /\ req[r].seenLimit > 0)
        => IF 100 * req[r].total < req[r].seenPct * req[r].seenLimit
           THEN /\ req[r].status = StatusTooManyRequests
                /\ req[r].body = "Requests below than percentage"
                /\ ~req[r].forwarded
           ELSE req[r].forwarded

\* C7: the step of a /config call that handles a value which does not parse
\* leaves limit, delay and percentage as they are and builds no limiter or
\* store; the step that handles a value which parses assigns it, whatever
\* the call's other values were.
C7_MalformedKeepsPrevious ==
    [][\A c \in Cfgs :
        (cfg[c].pc \in {"delay", "limit", "percent"} /\ cfg'[c].pc # cfg[c].pc)
        => /\ Malformed(cfg'[c].val) =>
                /\ UNCHANGED <<limit, delay, percentage, rateLimiter, stores>>
                /\ cfg'[c].pc # "rebuild"
           /\ WellFormed(cfg'[c].val) =>
                /\ cfg[c].pc = "delay" => delay' = Atoi(cfg'[c].val).val
                /\ cfg[c].pc = "limit" => limit' = Atoi(cfg'[c].val).val
                /\ cfg[c].pc = "percent" =>
                        percentage' = Atoi(cfg'[c].val).val]_vars

\* LIMIT=50 in one call, then a call with DELAY=7 and a LIMIT that does not
\* parse: the limit is still 50 and the delay is 7.
C7_Witness ==
    \E c \in Cfgs :
        /\ cfg[c].pc = "percent"
        /\ cfg[c].param = "LIMIT"
        /\ Malformed(cfg[c].val)
        /\ configs = 2
        /\ limit = 50
        /\ cfg[c].oldLimit = 50
        /\ cfg[c].oldDelay = DEFAULT_LIMIT
        /\ delay = 7

\* C8: the configuration stays in range.
C8_ConfigInRange ==
    /\ limit > 0
    /\ delay >= 0
    /\ percentage >= 0
    /\ percentage <= 100

\* C9: while the configuration is in range, the limit, the percentage and
\* the delay a request applies are those in force when it started.
C9_ConfigAsAtStart ==
    \A r \in Reqs : InRange(limit, delay, percentage) =>
        /\ HasReadLimit(r) => req[r].seenLimit = req[r].atStart.limit
        /\ HasReadBoth(r) => req[r].seenPct = req[r].atStart.percentage
        /\ req[r].slept => req[r].sleptFor = req[r].atStart.delay

\* C10: with a single /config call in the behaviour, leaving the
\* configuration in range, a request that started while no call was running
\* and has read limit and percentage holds, once no call is running, either
\* the pair from before the call or the pair from after it.
C10_NoTornConfig ==
    \A r \in Reqs :
        (/\ HasReadBoth(r) /\ req[r].atStart.quiet /\ CfgQuiet /\ configs <= 1
         /\ InRange(limit, delay, percentage))
        => \/ /\ req[r].seenLimit = req[r].atStart.limit
              /\ req[r].seenPct = req[r].atStart.percentage
           \/ /\ req[r].seenLimit = limit
              /\ req[r].seenPct = percentage

\* The keys the request pipeline tracks: those its store's map holds.
Tracked == {k \in Keys : get(rtStore, k) # NoEntry}

\* C11: while the limit is a valid one, GET /stats lists exactly the keys
\* whose requests went through the hard gate and were not evicted since,
\* each with its current available count.
C11_StatsListsTrackedKeys ==
    limit > 0 =>
        /\ DOMAIN GetStats = Tracked
        /\ \A k \in Tracked :
                GetStats[k] = BucketAvailable(entries[get(rtStore, k)], now)

\* A step of the expiry goroutine of store s: the only one to move swept.
Swept(s) == s \in DOMAIN stores' /\ stores'[s].swept # stores[s].swept

\* An Increment call for key k is under way.
Incrementing(k) ==
    \E r \in Reqs : req[r].key = k
                     /\ req[r].pc \in {"get", "avail", "take", "touch", "set"}

\* C12: a sweep leaves no key whose last Increment attempt was stamped
\* more than 30 seconds ago, and removes no key whose last attempt was
\* stamped at most 30 seconds ago; keys with an Increment call under way
\* at the sweep are left aside.
C12_SweepEvictsExactlyStale ==
    [][\A s \in DOMAIN stores : Swept(s) =>
        \A k \in Keys : ~Incrementing(k) =>
            /\ stores'[s].storage[k] # NoEntry
                    => now - touched[k] <= expireInSecs
            /\ (stores[s].storage[k] # NoEntry /\ stores'[s].storage[k] = NoEntry)
                    => now - touched[k] > expireInSecs]_vars

\* C13: a request that was forwarded upstream has slept the configured
\* delay by the time its result is returned, whether the upstream answered
\* or the transport failed.
C13_DelayOnEveryForward ==
    \A r \in Reqs : (Done(r) /\ req[r].forwarded) =>
        /\ req[r].slept
        /\ req[r].sleptFor = delay

\* C14: the only step of a /config call that changes the limiter, a store,
\* the tracked keys or a key's bucket is the rebuild that follows a LIMIT
\* value which parses; a call with no LIMIT value, whatever its DELAY and
\* PERCENT, leaves them all as they were.
C14_OnlyLimitRebuilds ==
    [][\A c \in Cfgs :
        (/\ cfg'[c] # cfg[c]
         /\ ~(/\ cfg[c].pc = "rebuild"
              /\ cfg[c].param = "LIMIT"
              /\ WellFormed(cfg[c].val)))
        => UNCHANGED <<rateLimiter, rtLimiter, stores, entries>>]_vars

\* A call with DELAY=7 and no LIMIT value, past its LIMIT block, with a key
\* tracked since before the call.
C14_Witness ==
    \E c \in Cfgs :
        /\ cfg[c].pc = "percent"
        /\ cfg[c].param = "LIMIT"
        /\ cfg[c].val = <<>>
        /\ configs = 1
        /\ delay = 7
        /\ cfg[c].oldDelay = DEFAULT_LIMIT
        /\ rateLimiter = rtLimiter
        /\ Tracked # {}

\* The soft gate's call of AbovePercentage by request r: its two steps.
SoftGateStep(r) ==
    /\ req[r].pc \in {"softGet", "softAvail"}
    /\ req'[r].pc # req[r].pc

\* C15: AbovePercentage leaves the store as it was: the map with its
\* tracked keys, the number of entries (none is created), every entry's
\* updatedAt and every entry's available count.
C15_SoftGateReadsOnly ==
    [][\A r \in Reqs : SoftGateStep(r) =>
        /\ UNCHANGED stores
        /\ Len(entries') = Len(entries)
        /\ \A i \in 1..Len(entries) :
                /\ entries'[i].updatedAt = entries[i].updatedAt
                /\ BucketAvailable(entries'[i], now)
                        = BucketAvailable(entries[i], now)]_vars

\* AbovePercentage has answered for a tracked key whose bucket had refill
\* ticks to credit since the hard gate.
C15_Witness ==
    \E r \in Reqs :
        /\ req[r].pc \in {"upstream", "done"}
        /\ req[r].softAsked
        /\ req[r].pv # NoEntry
        /\ req[r].checkedAt < now
        /\ req[r].total > req[r].availSeen - 1

\* C16: a step of a request for one key leaves every other key's map slot,
\* entry and admission count as they were; and a request is refused at the
\* hard gate only when its own key has used up the store's capacity,
\* however exhausted the other keys are.
C16_KeyIsolation ==
    /\ [](\A r \in Reqs : (Done(r) /\ req[r].exceeded) =>
                admitted[req[r].key] >= rtStore.limit)
    /\ [][\A r \in Reqs : (req[r].pc # "idle" /\ req'[r] # req[r]) =>
            \A k \in Keys \ {req[r].key} :
                /\ get(rtStore, k)' = get(rtStore, k)
                /\ admitted'[k] = admitted[k]
                /\ get(rtStore, k) # NoEntry =>
                        entries'[get(rtStore, k)] = entries[get(rtStore, k)]]_vars

\* One key has no token left and a request for another key is admitted.
C16_Witness ==
    \E r \in Reqs : \E k \in Keys \ {req[r].key} :
        /\ Done(r)
        /\ ~req[r].exceeded
        /\ ~Panicked(r)
        /\ get(rtStore, k) # NoEntry
        /\ BucketAvailable(entries[get(rtStore, k)], now) = 0
        /\ admitted[k] = rtStore.limit
        /\ admitted[req[r].key] = 1

\* C17: a request whose soft gate was asked with a limit <= 0 and a
\* percentage in 0..100 is found above the threshold: it is not answered
\* "Requests below than percentage" (and the call does not crash).
C17_BrokenLimitIsAbove ==
    \A r \in Reqs :
        (/\ Done(r) /\ req[r].softAsked
         /\ req[r].seenLimit <= 0
         /\ req[r].seenPct >= 0 /\ req[r].seenPct <= 100)
        => /\ req[r].body # "Requests below than percentage"
           /\ req[r].body # "panic"

\* C18: on a store of positive limit, making an entry does not fail and
\* gives it the refill interval 1000 / limit > 0; a request is refused at
\* the hard gate only if less than one refill interval has passed since the
\* key's bucket was emptied; and no bucket holds more than its capacity.
C18_PositiveRefillInterval ==
    /\ \A r \in Reqs : rtStore.limit > 0 => ~Panicked(r)
    /\ \A i \in 1..Len(entries) :
            /\ entries[i].fillInterval = GoDiv(MillisPerSec, entries[i].capacity)
            /\ entries[i].fillInterval > 0
            /\ BucketAvailable(entries[i], now) <= entries[i].capacity
    /\ \A r \in Reqs : (req[r].pc # "idle" /\ req[r].exceeded) =>
            req[r].checkedAt - exhausted[req[r].key]
                < entries[req[r].v].fillInterval

\* C19: when two concurrent /config calls have both handled PERCENT, one
\* with a value that does not parse and the other with one that does, the
\* percentage is the value that parsed.
C19_MalformedNeverReverts ==
    \A a, b \in Cfgs :
        (/\ cfg[a].pc = "done" /\ cfg[b].pc = "done"
         /\ Malformed(cfg[a].val)
         /\ WellFormed(cfg[b].val))
        => percentage = Atoi(cfg[b].val).val

\* C20: with requests one after another and no time passing since the hard
\* gate's check, a finished request that passed the hard gate has left its
\* key exactly one token fewer than it found, forwarded or soft-rejected
\* alike, and the soft gate read that count; a request refused by the hard
\* gate found 0 and left 0; either way the entry is stamped with the time
\* of the attempt.
C20_TokenAccounting ==
    \A r \in Reqs :
        (Done(r) /\ ~Panicked(r) /\ req[r].checkedAt = now) =>
            /\ entries[req[r].v].updatedAt = now
            /\ touched[req[r].key] = now
            /\ IF req[r].exceeded
               THEN /\ req[r].availSeen = 0
                    /\ BucketAvailable(entries[req[r].v], now) = 0
               ELSE /\ BucketAvailable(entries[req[r].v], now)
                            = req[r].availSeen - 1
                    /\ req[r].softAsked
                    /\ req[r].pv # NoEntry => req[r].total = req[r].availSeen - 1

\* A request found 2 tokens, passed the hard gate and was soft-rejected,
\* leaving 1.
C20_Witness ==
    \E r \in Reqs :
        /\ Done(r)
        /\ req[r].body = "Requests below than percentage"
        /\ req[r].availSeen = 2
        /\ req[r].total = 1
        /\ BucketAvailable(entries[req[r].v], now) = 1

====
